---- MODULE Spec2Model ----
(***************************************************************************)
(* Model of myopia_reader's PDF processing component                       *)
(* (src/pdf_processor.py, class PDFProcessor).                             *)
(*                                                                         *)
(* A text is a sequence of one-character strings; None is a sequence that  *)
(* is not a text.  Two specifications:                                     *)
(*   Spec      process_pdf / extract_text as a step machine (validation,   *)
(*             backend attempts, cleaning, chapter detection, saving);     *)
(*   SpecText  the pure text functions clean_extracted_text and            *)
(*             detect_chapters applied to every text of a bounded set.     *)
(***************************************************************************)
EXTENDS Integers, Sequences, FiniteSets, TLC

VARIABLES
    \* ---- text functions (SpecText) ----
    text,        \* the input text
    cleaned,     \* clean_extracted_text(text)
    recleaned,   \* clean_extracted_text(cleaned)
    chapters,    \* detect_chapters(text)
    cchapters,   \* detect_chapters(cleaned)
    tpc,         \* which functions have been applied
    \* ---- process_pdf / extract_text (Spec) ----
    doc,         \* what file_path names: missing, notpdf, undecodable, valid
    entry,       \* the method called: extract_text or process_pdf
    preferred,   \* preferred_method
    opts,        \* clean_text, save_to_output, split_chapters
    pc,          \* position in the call
    idx,         \* position of the fallback loop in methods
    attempts,    \* the backend calls made so far, in order
    ret,         \* the return value of extract_text
    result,      \* the result record of process_pdf
    segs,        \* the chapters list process_pdf passes to save_chapter_files
    si,          \* position of the loop in save_chapter_files
    saved,       \* saved_files of save_chapter_files
    outcomes,    \* how each save_to_file call went, in call order
    dirs,        \* filesystem: the directories that exist
    files,       \* filesystem: the files that exist, path -> content
    \* ---- one backend adapter call (SpecAdapter) ----
    adapter,     \* the call: method, document behaviour, returned text, handle
    \* ---- process_pdf called twice (SpecRepeat) ----
    rep,         \* which run this is, how create_chapter_folders went, and
                 \* what the first run left
    \* ---- the viewer, display_reader.py (SpecViewer) ----
    vpc,            \* "init" in __init__ before auto_load_text_file, then "mainloop"
    current_text,   \* self.current_text
    text_lines,     \* self.text_lines
    font_size,      \* self.font_size
    lines_per_page, \* self.lines_per_page
    current_page,   \* self.current_page
    total_pages,    \* self.total_pages
    page_var,       \* the text of the page entry
    text_widget,    \* the text shown
    widget_height,  \* text_widget.winfo_height()
    messagebox      \* the dialog the last event showed, "none" if it showed none

tvars == <<text, cleaned, recleaned, chapters, cchapters, tpc>>
pvars == <<doc, entry, preferred, opts, pc, idx, attempts, ret, result, segs, si,
           saved, outcomes, dirs, files>>
vars == <<text, cleaned, recleaned, chapters, cchapters, tpc,
          doc, entry, preferred, opts, pc, idx, attempts, ret, result, segs, si,
          saved, outcomes, dirs, files, adapter, rep,
          vpc, current_text, text_lines, font_size, lines_per_page, current_page,
          total_pages, page_var, text_widget, widget_height, messagebox>>
rvars == <<vpc, current_text, text_lines, font_size, lines_per_page, current_page,
           total_pages, page_var, text_widget, widget_height, messagebox>>

\* Python's None, as a sequence that is not a text
None == <<"None">>

\* a first call of process_pdf, before create_chapter_folders
FirstRun == [run |-> 1, folder |-> "none", first |-> None]

\* the welcome text of auto_load_text_file
Welcome == <<"Welcome">>

\* MyopiaReader.__init__, up to the call of auto_load_text_file
ViewerInit ==
    /\ vpc = "init"
    /\ current_text = <<>>
    /\ text_lines = <<>>
    /\ font_size = 18
    /\ lines_per_page = 30
    /\ current_page = 1
    /\ total_pages = 1
    /\ page_var = <<>>
    /\ text_widget = <<>>
    /\ widget_height = 1
    /\ messagebox = "none"

----------------------------------------------------------------------------
\* Bounds

\* most lines of an input text
MaxLines == 3

\* most pages of a document
MaxPages == 2

\* most characters of a chapter name passed to save_chapter_files
MaxLabelLen == 3

\* most lines of a file the viewer loads
MaxFileLines == 21

----------------------------------------------------------------------------
\* Characters and strings

\* the characters str.strip() removes and the regex class \s matches
Whitespace == {" ", "\t", "\n", "\r", "\f"}

\* the characters the regex class \d matches
Digits == {"0", "1", "2", "3", "4", "5", "6", "7", "8", "9"}

\* the literal token of the chapter pattern
CHAPTER == <<"C", "H", "A", "P", "T", "E", "R">>

RECURSIVE LStrip(_)
LStrip(s) ==
    IF s = <<>> THEN <<>>
    ELSE IF Head(s) \in Whitespace THEN LStrip(Tail(s)) ELSE s

RECURSIVE RStrip(_)
RStrip(s) ==
    IF s = <<>> THEN <<>>
    ELSE IF s[Len(s)] \in Whitespace THEN RStrip(SubSeq(s, 1, Len(s) - 1)) ELSE s

\* str.strip()
Strip(s) == RStrip(LStrip(s))

\* str.split('\n'): always at least one line
RECURSIVE Split(_)
Split(s) ==
    IF \A i \in 1..Len(s) : s[i] # "\n" THEN <<s>>
    ELSE LET k == CHOOSE i \in 1..Len(s) :
                      s[i] = "\n" /\ \A j \in 1..(i - 1) : s[j] # "\n"
         IN  <<SubSeq(s, 1, k - 1)>> \o Split(SubSeq(s, k + 1, Len(s)))

\* '\n'.join(lines)
RECURSIVE Join(_)
Join(ls) ==
    IF ls = <<>> THEN <<>>
    ELSE IF Len(ls) = 1 THEN ls[1]
    ELSE ls[1] \o <<"\n">> \o Join(Tail(ls))

\* ''.join(lines)
RECURSIVE Concat(_)
Concat(ls) == IF ls = <<>> THEN <<>> ELSE Head(ls) \o Concat(Tail(ls))

\* s.replace('\n\n\n', '\n\n'): non-overlapping occurrences, left to right
RECURSIVE ReplaceTriple(_)
ReplaceTriple(s) ==
    IF Len(s) < 3 THEN s
    ELSE IF SubSeq(s, 1, 3) = <<"\n", "\n", "\n">>
         THEN <<"\n", "\n">> \o ReplaceTriple(SubSeq(s, 4, Len(s)))
         ELSE <<Head(s)>> \o ReplaceTriple(Tail(s))

\* '\n\n\n' in s
HasTriple(s) ==
    \E i \in 1..(Len(s) - 2) : SubSeq(s, i, i + 2) = <<"\n", "\n", "\n">>

\* while '\n\n\n' in s: s = s.replace('\n\n\n', '\n\n')
RECURSIVE CollapseNewlines(_)
CollapseNewlines(s) ==
    IF HasTriple(s) THEN CollapseNewlines(ReplaceTriple(s)) ELSE s

\* int(digits)
RECURSIVE ParseInt(_)
ParseInt(ds) ==
    IF ds = <<>> THEN 0
    ELSE LET d == CHOOSE v \in 0..9 : <<"0", "1", "2", "3", "4", "5", "6", "7", "8", "9">>[v + 1] = ds[Len(ds)]
         IN  10 * ParseInt(SubSeq(ds, 1, Len(ds) - 1)) + d

\* str(n) for n >= 0
RECURSIVE IntToStr(_)
IntToStr(n) ==
    LET d == <<<<"0", "1", "2", "3", "4", "5", "6", "7", "8", "9">>[(n % 10) + 1]>>
    IN  IF n < 10 THEN d ELSE IntToStr(n \div 10) \o d

----------------------------------------------------------------------------
\* clean_extracted_text

\* the loop over lines: strip each line, keep it when non-empty
RECURSIVE CleanedLinesBlankFirst(_)
CleanedLinesBlankFirst(ls) ==
    IF ls = <<>> THEN <<>>
    ELSE IF Head(ls) # <<>>
         THEN <<Strip(Head(ls))>> \o CleanedLinesBlankFirst(Tail(ls))
         ELSE CleanedLinesBlankFirst(Tail(ls))

RECURSIVE CleanedLines(_)
CleanedLines(ls) ==
    IF ls = <<>> THEN <<>>
    ELSE IF Strip(Head(ls)) # <<>>
         THEN <<Strip(Head(ls))>> \o CleanedLines(Tail(ls))
         ELSE CleanedLines(Tail(ls))

clean_extracted_text_keep_blank(t) ==
    LET ls == Split(t) IN Join([i \in 1..Len(ls) |-> Strip(ls[i])])

clean_extracted_text(t) ==
    IF t = <<>> THEN <<>>
    ELSE CollapseNewlines(Join(CleanedLines(Split(t))))

----------------------------------------------------------------------------
\* detect_chapters

\* number of leading characters of s that are whitespace
RECURSIVE LeadingSpaces(_)
LeadingSpaces(s) ==
    IF s = <<>> \/ Head(s) \notin Whitespace THEN 0
    ELSE 1 + LeadingSpaces(Tail(s))

\* re.match(r'^CHAPTER\s+(\d+)$', s) for a stripped line s
ChapterMatchNoSeparator(s) ==
    /\ Len(s) >= Len(CHAPTER) + 1
    /\ SubSeq(s, 1, Len(CHAPTER)) = CHAPTER
    /\ LET rest == SubSeq(s, Len(CHAPTER) + 1, Len(s))
           k    == LeadingSpaces(rest)
       IN  /\ k < Len(rest)
           /\ \A i \in (k + 1)..Len(rest) : rest[i] \in Digits

ChapterMatch(s) ==
    /\ Len(s) >= Len(CHAPTER) + 2
    /\ SubSeq(s, 1, Len(CHAPTER)) = CHAPTER
    /\ LET rest == SubSeq(s, Len(CHAPTER) + 1, Len(s))
           k    == LeadingSpaces(rest)
       IN  /\ k >= 1
           /\ k < Len(rest)
           /\ \A i \in (k + 1)..Len(rest) : rest[i] \in Digits

\* chapter_match.group(1)
ChapterGroup(s) ==
    LET rest == SubSeq(s, Len(CHAPTER) + 1, Len(s))
    IN  SubSeq(rest, LeadingSpaces(rest) + 1, Len(rest))

\* f"Chapter {chapter_num}"
ChapterName(n) == <<"C", "h", "a", "p", "t", "e", "r", " ">> \o IntToStr(n)

Introduction == <<"I", "n", "t", "r", "o", "d", "u", "c", "t", "i", "o", "n">>

\* first pass: (line index, chapter number, chapter name) of every marker
\* line, in document order; line indices are 1-based here
RECURSIVE ChapterStartsFrom(_, _)
ChapterStartsFrom(lines, i) ==
    IF i > Len(lines) THEN <<>>
    ELSE LET line_stripped == Strip(lines[i])
         IN  IF ChapterMatch(line_stripped)
             THEN LET chapter_num == ParseInt(ChapterGroup(line_stripped))
                  IN  <<[line |-> i, num |-> chapter_num, name |-> ChapterName(chapter_num)]>>
                      \o ChapterStartsFrom(lines, i + 1)
             ELSE ChapterStartsFrom(lines, i + 1)

chapter_starts(lines) == ChapterStartsFrom(lines, 1)

\* the ordinal given to a chapter with marker number n: chapter_num - 1
ChapterIndexReversed(n) == 1 - n

ChapterIndexOneBased(n) == n

ChapterIndex(n) == n - 1

\* '\n'.join(lines[start_line:end_line]).strip(), the header line included;
\* end_line is the last line taken
ChapterContentNoHeader(lines, start_line, end_line) ==
    Strip(Join(SubSeq(lines, start_line + 1, end_line)))

ChapterContent(lines, start_line, end_line) ==
    Strip(Join(SubSeq(lines, start_line, end_line)))

\* the introduction: everything before the first chapter
IntroSegmentUnchecked(lines, starts) ==
    IF starts[1].line > 1
    THEN <<[name |-> Introduction, index |-> -1,
            content |-> ChapterContent(lines, 1, starts[1].line - 1)]>>
    ELSE <<>>

IntroSegment(lines, starts) ==
    IF starts[1].line > 1
    THEN LET intro_content == ChapterContent(lines, 1, starts[1].line - 1)
         IN  IF intro_content # <<>>
             THEN <<[name |-> Introduction, index |-> -1, content |-> intro_content]>>
             ELSE <<>>
    ELSE <<>>

\* the loop over chapter_starts, from entry i on
RECURSIVE ChapterSegmentsFrom(_, _, _)
ChapterSegmentsFrom(lines, starts, i) ==
    IF i > Len(starts) THEN <<>>
    ELSE LET end_line == IF i + 1 <= Len(starts) THEN starts[i + 1].line - 1
                         ELSE Len(lines)
             chapter_content == ChapterContent(lines, starts[i].line, end_line)
         IN  (IF chapter_content # <<>>
              THEN <<[name |-> starts[i].name, index |-> ChapterIndex(starts[i].num),
                      content |-> chapter_content]>>
              ELSE <<>>)
             \o ChapterSegmentsFrom(lines, starts, i + 1)

\* no chapters found: all of the text is the introduction
NoChapterSegmentsUnstripped(t) ==
    IF t # <<>>
    THEN <<[name |-> Introduction, index |-> -1, content |-> t]>>
    ELSE <<>>

NoChapterSegments(t) ==
    LET intro_text == Strip(t)
    IN  IF intro_text # <<>>
        THEN <<[name |-> Introduction, index |-> -1, content |-> intro_text]>>
        ELSE <<>>

detect_chapters(t) ==
    IF t = <<>> THEN <<>>
    ELSE LET lines  == Split(t)
             starts == chapter_starts(lines)
         IN  IF starts # <<>>
             THEN IntroSegment(lines, starts) \o ChapterSegmentsFrom(lines, starts, 1)
             ELSE NoChapterSegments(t)

----------------------------------------------------------------------------
\* SpecText: the text functions applied to bounded inputs

\* the lines an input text is made of
LineChoices ==
    { <<>>,
      <<" ">>,
      <<"a">>,
      <<" ", "b", "\t">>,
      CHAPTER \o <<" ", "1">>,
      CHAPTER \o <<" ", "2">>,
      CHAPTER \o <<" ", "0">>,
      <<" ">> \o CHAPTER \o <<"\t", " ", "0", "3">> \o <<" ">>,
      CHAPTER \o <<" ", "1", "a">>,
      CHAPTER \o <<"1">>,
      <<"c", "h", "a", "p", "t", "e", "r", " ", "1">>,
      CHAPTER }

LineSeqs == UNION { [1..n -> LineChoices] : n \in 1..MaxLines }

TextInit ==
    /\ text \in { Join(ls) : ls \in LineSeqs }
    /\ cleaned = None
    /\ recleaned = None
    /\ chapters = None
    /\ cchapters = None
    /\ tpc = "input"
    /\ doc = [exists |-> FALSE, pdf_ext |-> FALSE, decodable |-> FALSE]
    /\ entry = "none"
    /\ preferred = "auto"
    /\ opts = [clean_text |-> TRUE, save_to_output |-> FALSE, split_chapters |-> TRUE]
    /\ pc = "idle"
    /\ idx = 0
    /\ attempts = <<>>
    /\ ret = None
    /\ result = None
    /\ segs = <<>>
    /\ si = 0
    /\ saved = <<>>
    /\ outcomes = <<>>
    /\ dirs = {}
    /\ files = <<>>
    /\ adapter = None
    /\ rep = FirstRun
    /\ ViewerInit

\* clean_extracted_text(text)
Clean ==
    /\ tpc = "input"
    /\ cleaned' = clean_extracted_text(text)
    /\ tpc' = "cleaned"
    /\ UNCHANGED <<text, recleaned, chapters, cchapters>>

\* clean_extracted_text applied to its own output
CleanAgain ==
    /\ tpc = "cleaned"
    /\ recleaned' = clean_extracted_text(cleaned)
    /\ tpc' = "recleaned"
    /\ UNCHANGED <<text, cleaned, chapters, cchapters>>

\* detect_chapters(text) on the raw text (clean_text = False)
DetectRaw ==
    /\ tpc = "input"
    /\ chapters' = detect_chapters(text)
    /\ tpc' = "detected"
    /\ UNCHANGED <<text, cleaned, recleaned, cchapters>>

\* detect_chapters on the cleaned text (clean_text = True)
DetectCleaned ==
    /\ tpc = "cleaned"
    /\ cchapters' = detect_chapters(cleaned)
    /\ tpc' = "cdetected"
    /\ UNCHANGED <<text, cleaned, recleaned, chapters>>

TextNext ==
    \/ Clean /\ UNCHANGED <<pvars, adapter, rep, rvars>>
    \/ CleanAgain /\ UNCHANGED <<pvars, adapter, rep, rvars>>
    \/ DetectRaw /\ UNCHANGED <<pvars, adapter, rep, rvars>>
    \/ DetectCleaned /\ UNCHANGED <<pvars, adapter, rep, rvars>>

SpecText == TextInit /\ [][TextNext]_vars

----------------------------------------------------------------------------
\* Backend adapters

\* a page whose text extraction raises
RAISE == <<"RAISE">>

\* what extracting one page gives: an error, or the page's text
PageChoices ==
    { RAISE,
      <<>>,
      <<" ", "\n">>,
      <<" ", "a", "\n">>,
      <<"a", "\n">> \o CHAPTER \o <<" ", "2", "\n">>,
      CHAPTER \o <<" ", "1", "\n">>,
      CHAPTER \o <<" ", "0", "\n", "b", " ">> }

PageSeqs == UNION { [1..n -> PageChoices] : n \in 0..MaxPages }

\* an exception that leaves the function
Raised == <<"Raised">>

\* how a backend behaves on the document: opening it succeeds ("ok"), opening
\* it raises ("raise"), it opens and reading its page list or page count
\* raises ("pages_raise"), or (pypdf2) it is reported encrypted; an open
\* document gives one outcome per page, the others give no page
Behaviours(method) ==
    [open : {"ok"}, pages : PageSeqs]
    \cup [open  : IF method = "pypdf2" THEN {"raise", "pages_raise", "encrypted"}
                  ELSE {"raise", "pages_raise"},
          pages : {<<>>}]

\* the outer "except Exception" of the adapters
AdapterExcept == TRUE

\* the page loop: text += page_text for every page that gives text; a page
\* that raises is logged and skipped
RECURSIVE PagesText(_)
PagesTextAllOrNothing(pages) ==
    IF \E i \in 1..Len(pages) : pages[i] = RAISE THEN <<>>
    ELSE Concat(pages)

PagesText(pages) ==
    IF pages = <<>> THEN <<>>
    ELSE (IF Head(pages) = RAISE THEN <<>> ELSE Head(pages)) \o PagesText(Tail(pages))

\* return text.strip() if text.strip() else None
StrippedOrNoneUnstripped(t) == IF t # <<>> THEN t ELSE None

StrippedOrNone(t) == IF Strip(t) # <<>> THEN Strip(t) ELSE None

extract_text_pypdf2(b) ==
    IF b.open \in {"raise", "pages_raise"} THEN (IF AdapterExcept THEN None ELSE Raised)
    ELSE IF b.open = "encrypted" THEN None
    ELSE StrippedOrNone(PagesText(b.pages))

extract_text_pdfplumber(b) ==
    IF b.open \in {"raise", "pages_raise"} THEN (IF AdapterExcept THEN None ELSE Raised)
    ELSE StrippedOrNone(PagesText(b.pages))

extract_text_pymupdf(b) ==
    IF b.open \in {"raise", "pages_raise"} THEN (IF AdapterExcept THEN None ELSE Raised)
    ELSE StrippedOrNone(PagesText(b.pages))

\* whether the document the adapter opened is still open when it returns:
\* pypdf2 and pdfplumber open it in a with statement; pymupdf calls close()
\* after the page loop, which an exception between open and close skips
HandleLeftOpen(name, b) ==
    IF name = "pymupdf" THEN b.open = "pages_raise"
    ELSE FALSE

----------------------------------------------------------------------------
\* extract_text

\* the keys of the methods dict, in insertion order
methods == <<"pymupdf", "pdfplumber", "pypdf2">>

MethodNames == {"pymupdf", "pdfplumber", "pypdf2"}

\* methods[name](file_path)
CallMethod(name, b) ==
    IF name = "pymupdf" THEN extract_text_pymupdf(b)
    ELSE IF name = "pdfplumber" THEN extract_text_pdfplumber(b)
    ELSE extract_text_pypdf2(b)

\* the truth value of an Optional[str]
Truthy(t) == t # None /\ t # <<>>

validate_pdf_file_any_extension(d) ==
    IF ~d.exists THEN FALSE
    ELSE d.decodable

validate_pdf_file(d) ==
    IF ~d.exists THEN FALSE
    ELSE IF ~d.pdf_ext THEN FALSE
    ELSE d.decodable

\* the fallback loop's test for the method tried first
AlreadyTriedNever(preferred_method, method_name) == FALSE

AlreadyTried(preferred_method, method_name) == preferred_method = method_name

\* what an attempt leaves in the history: the method, how the open went, the
\* concatenated page text (None when the open failed) and the returned value
Attempt(name, b, t) ==
    [method |-> name,
     open   |-> b.open,
     raw    |-> IF b.open = "ok" THEN PagesText(b.pages) ELSE None,
     text   |-> t]

\* the "except Exception" of process_pdf, of the loop of save_chapter_files
\* and of save_to_file
ProcessExceptMissing == FALSE

ProcessExcept == TRUE

SaveChapterExceptMissing == FALSE

SaveChapterExcept == TRUE

SaveToFileExcept == TRUE

\* str(e) of an exception that reaches the except clause of process_pdf
FolderError == <<"str(e)">>

\* where an exception that nothing below process_pdf catches ends: in the
\* except clause of process_pdf, or outside the call
UncaughtPc == IF entry = "process_pdf" /\ ProcessExcept THEN "done" ELSE "raised"

UncaughtResult ==
    IF entry = "process_pdf" /\ ProcessExcept
    THEN [result EXCEPT !.error = FolderError]
    ELSE result

\* if not self.validate_pdf_file(file_path): return None
Validate ==
    /\ pc = "validate"
    /\ IF validate_pdf_file(doc)
       THEN pc' = "preferred" /\ ret' = ret
       ELSE pc' = "returned" /\ ret' = None
    /\ UNCHANGED <<doc, entry, preferred, opts, idx, attempts, result, segs, si,
                   saved, outcomes, dirs, files>>

\* if preferred_method in methods: try it first
TryPreferred ==
    /\ pc = "preferred"
    /\ preferred \in MethodNames
    /\ \E b \in Behaviours(preferred) :
          LET t == CallMethod(preferred, b)
          IN  /\ attempts' = Append(attempts, Attempt(preferred, b, t))
              /\ IF t = Raised
                 THEN pc' = UncaughtPc /\ result' = UncaughtResult
                      /\ ret' = ret /\ idx' = idx
                 ELSE IF Truthy(t)
                 THEN pc' = "returned" /\ ret' = t /\ idx' = idx /\ result' = result
                 ELSE pc' = "fallback" /\ ret' = ret /\ idx' = 1 /\ result' = result
    /\ UNCHANGED <<doc, entry, preferred, opts, segs, si, saved, outcomes, dirs, files>>

\* preferred_method names no method ("auto"): straight to the loop
NoPreferred ==
    /\ pc = "preferred"
    /\ preferred \notin MethodNames
    /\ pc' = "fallback"
    /\ idx' = 1
    /\ UNCHANGED <<doc, entry, preferred, opts, attempts, ret, result, segs, si,
                   saved, outcomes, dirs, files>>

\* the loop: continue on the method already tried
FallbackSkip ==
    /\ pc = "fallback"
    /\ idx <= Len(methods)
    /\ AlreadyTried(preferred, methods[idx])
    /\ idx' = idx + 1
    /\ UNCHANGED <<doc, entry, preferred, opts, pc, attempts, ret, result, segs, si,
                   saved, outcomes, dirs, files>>

\* the loop: try the next method, return its text when there is some
FallbackTryOf(behaviours) ==
    /\ pc = "fallback"
    /\ idx <= Len(methods)
    /\ ~AlreadyTried(preferred, methods[idx])
    /\ \E b \in behaviours :
          LET t == CallMethod(methods[idx], b)
          IN  /\ attempts' = Append(attempts, Attempt(methods[idx], b, t))
              /\ IF t = Raised
                 THEN pc' = UncaughtPc /\ result' = UncaughtResult
                      /\ ret' = ret /\ idx' = idx
                 ELSE IF Truthy(t)
                 THEN pc' = "returned" /\ ret' = t /\ idx' = idx /\ result' = result
                 ELSE pc' = pc /\ ret' = ret /\ idx' = idx + 1 /\ result' = result
    /\ UNCHANGED <<doc, entry, preferred, opts, segs, si, saved, outcomes, dirs, files>>

FallbackTry == FallbackTryOf(Behaviours(methods[idx]))

\* after the loop: all extraction methods failed
AllFailed ==
    /\ pc = "fallback"
    /\ idx > Len(methods)
    /\ ret' = None
    /\ pc' = "returned"
    /\ UNCHANGED <<doc, entry, preferred, opts, idx, attempts, result, segs, si,
                   saved, outcomes, dirs, files>>

----------------------------------------------------------------------------
\* Filesystem layout

\* a path is a sequence of components, each a text
NoPath == <<None>>

\* output_dir, by default
OutputDir == <<"o", "u", "t", "p", "u", "t">>

\* Path(file_path).stem
PdfName == <<"d", "o", "c">>

IntroDir == <<"i", "n", "t", "r", "o">>

TxtExt == <<".", "t", "x", "t">>

UpperCase == <<"A", "B", "C", "D", "E", "F", "G", "H", "I", "J", "K", "L", "M",
               "N", "O", "P", "Q", "R", "S", "T", "U", "V", "W", "X", "Y", "Z">>

LowerCase == <<"a", "b", "c", "d", "e", "f", "g", "h", "i", "j", "k", "l", "m",
               "n", "o", "p", "q", "r", "s", "t", "u", "v", "w", "x", "y", "z">>

\* the characters the regex class \w matches
WordChars ==
    {UpperCase[i] : i \in 1..26} \cup {LowerCase[i] : i \in 1..26} \cup Digits \cup {"_"}

\* str.lower()
RECURSIVE Lower(_)
Lower(s) ==
    IF s = <<>> THEN <<>>
    ELSE (IF \E i \in 1..26 : UpperCase[i] = Head(s)
          THEN <<LowerCase[CHOOSE i \in 1..26 : UpperCase[i] = Head(s)]>>
          ELSE <<Head(s)>>) \o Lower(Tail(s))

\* re.sub(r'[^\w\s-]', '', s)
RECURSIVE RemoveSpecial(_)
RemoveSpecial(s) ==
    IF s = <<>> THEN <<>>
    ELSE (IF Head(s) \in WordChars \cup Whitespace \cup {"-"} THEN <<Head(s)>> ELSE <<>>)
         \o RemoveSpecial(Tail(s))

\* re.sub(r'\s+', '_', s)
RECURSIVE SpacesToUnderscore(_)
SpacesToUnderscore(s) ==
    IF s = <<>> THEN <<>>
    ELSE IF Head(s) \in Whitespace
         THEN <<"_">> \o SpacesToUnderscore(LStrip(s))
         ELSE <<Head(s)>> \o SpacesToUnderscore(Tail(s))

\* clean_name: the file name made from a chapter name
CleanName(chapter_name) == Lower(SpacesToUnderscore(Strip(RemoveSpecial(chapter_name))))

\* f"{n:02d}" for n >= 0
TwoDigitsUnpadded(n) == IntToStr(n)

TwoDigits(n) == IF n < 10 THEN <<"0">> \o IntToStr(n) ELSE IntToStr(n)

\* create_chapter_folders: folders["main"] and folders["intro"]
MainFolder == <<OutputDir, PdfName>>

IntroFolder == <<OutputDir, PdfName, IntroDir>>

\* the file save_chapter_files writes a chapter to
ChapterFile(chapter_name, chapter_index) ==
    IF chapter_index = -1
    THEN Append(IntroFolder, <<"i", "n", "t", "r", "o", "d", "u", "c", "t", "i", "o", "n">> \o TxtExt)
    ELSE MainFolder \o <<TwoDigits(chapter_index + 1), CleanName(chapter_name) \o TxtExt>>

\* intro/full_text.txt
FullTextFile == Append(IntroFolder, <<"f", "u", "l", "l", "_", "t", "e", "x", "t">> \o TxtExt)

\* output_dir/<pdf_name>_extracted.txt
ExtractedFile ==
    <<OutputDir, PdfName \o <<"_", "e", "x", "t", "r", "a", "c", "t", "e", "d">> \o TxtExt>>

\* Path.mkdir(parents=True, exist_ok=True)
MkdirParents(ds, path) == ds \cup { SubSeq(path, 1, k) : k \in 1..Len(path) }

\* the parent directory of a file
Parent(path) == SubSeq(path, 1, Len(path) - 1)

\* how one save_to_file call goes: the file is written; creating the
\* directory raises; opening the file raises; the write raises after the open
\* truncated the file
WriteOutcomes == {"ok", "mkdir_fail", "open_fail", "write_fail"}

\* save_to_file: the directories afterwards
SaveDirs(ds, path, outcome) ==
    IF outcome = "mkdir_fail" THEN ds ELSE MkdirParents(ds, Parent(path))

\* save_to_file: the files afterwards
SaveFilesAppend(fs, content, path, outcome) ==
    IF outcome = "ok"
    THEN (path :> (IF path \in DOMAIN fs THEN fs[path] ELSE <<>>) \o content) @@ fs
    ELSE fs

SaveFiles(fs, content, path, outcome) ==
    IF outcome = "ok" THEN (path :> content) @@ fs
    ELSE IF outcome = "write_fail" THEN (path :> <<>>) @@ fs
    ELSE fs

\* save_to_file: the returned bool
SaveOk(outcome) == outcome = "ok"

----------------------------------------------------------------------------
\* process_pdf

\* get_pdf_metadata: which fields could be read (file size, page count and
\* document information); every exception is swallowed
get_pdf_metadata(d) ==
    [file_size  |-> d.exists,
     page_count |-> d.exists /\ d.decodable]

ExtractionFailed == <<"Text extraction failed">>

\* [(name, idx, len(content)) for name, idx, content in chapters]
ChapterSummary(cs) ==
    [i \in 1..Len(cs) |->
        [name |-> cs[i].name, index |-> cs[i].index, length |-> Len(cs[i].content)]]

\* result = {...}, the metadata, then the call of extract_text
ProcessStart ==
    /\ pc = "start"
    /\ result' = [success       |-> FALSE,
                  text          |-> None,
                  metadata      |-> get_pdf_metadata(doc),
                  chapters      |-> <<>>,
                  saved_files   |-> <<>>,
                  error         |-> None,
                  output_folder |-> NoPath]
    /\ pc' = "validate"
    /\ UNCHANGED <<doc, entry, preferred, opts, idx, attempts, ret, segs, si, saved, outcomes,
                   dirs, files>>

\* else: result["error"] = "Text extraction failed"
ProcessFailedNoError ==
    /\ pc = "returned"
    /\ entry = "process_pdf"
    /\ ~Truthy(ret)
    /\ pc' = "done"
    /\ UNCHANGED <<doc, entry, preferred, opts, idx, attempts, ret, result, segs, si,
                   saved, outcomes, dirs, files>>

ProcessFailed ==
    /\ pc = "returned"
    /\ entry = "process_pdf"
    /\ ~Truthy(ret)
    /\ result' = [result EXCEPT !.error = ExtractionFailed]
    /\ pc' = "done"
    /\ UNCHANGED <<doc, entry, preferred, opts, idx, attempts, ret, segs, si, saved, outcomes,
                   dirs, files>>

\* if save_to_output and result["text"]
ShouldSaveAlways(o, t) == Truthy(t)

ShouldSave(o, t) == o.save_to_output /\ Truthy(t)

\* if raw_text: the text is cleaned, success is set, and the chapters are
\* detected when the text is to be saved by chapter
ProcessText ==
    /\ pc = "returned"
    /\ entry = "process_pdf"
    /\ Truthy(ret)
    /\ LET t  == IF opts.clean_text THEN clean_extracted_text(ret) ELSE ret
           cs == detect_chapters(t)
       IN  IF ShouldSave(opts, t)
           THEN IF opts.split_chapters
                THEN /\ result' = [result EXCEPT !.text = t, !.success = TRUE,
                                                 !.chapters = ChapterSummary(cs)]
                     /\ segs' = cs
                     /\ pc' = "folders"
                ELSE /\ result' = [result EXCEPT !.text = t, !.success = TRUE]
                     /\ segs' = segs
                     /\ pc' = "save_single"
           ELSE /\ result' = [result EXCEPT !.text = t, !.success = TRUE]
                /\ segs' = segs
                /\ pc' = "done"
    /\ UNCHANGED <<doc, entry, preferred, opts, idx, attempts, ret, si, saved, outcomes, dirs, files>>

\* create_chapter_folders, in either branch of "if chapters"; without
\* chapters the text is saved to intro/full_text.txt at once.  An exception
\* of a mkdir reaches the except clause of process_pdf.
ProcessFolders ==
    /\ pc = "folders"
    /\ \E o \in {"ok", "fail_main", "fail_intro"}, w \in WriteOutcomes :
       /\ rep' = [rep EXCEPT !.folder = o]
       /\ IF o = "fail_main"
          THEN /\ result' = UncaughtResult
               /\ pc' = UncaughtPc
               /\ UNCHANGED <<dirs, files, si, saved, outcomes>>
          ELSE IF o = "fail_intro"
          THEN /\ dirs' = MkdirParents(dirs, MainFolder)
               /\ result' = UncaughtResult
               /\ pc' = UncaughtPc
               /\ UNCHANGED <<files, si, saved, outcomes>>
          ELSE IF segs # <<>>
          THEN /\ dirs' = MkdirParents(dirs, IntroFolder)
               /\ result' = [result EXCEPT !.output_folder = MainFolder]
               /\ si' = 1
               /\ saved' = <<>>
               /\ outcomes' = <<>>
               /\ pc' = "save_chapters"
               /\ UNCHANGED files
          ELSE /\ dirs' = SaveDirs(MkdirParents(dirs, IntroFolder), FullTextFile, w)
               /\ files' = SaveFiles(files, result.text, FullTextFile, w)
               /\ IF ~SaveOk(w) /\ ~SaveToFileExcept
                  THEN result' = UncaughtResult /\ pc' = UncaughtPc
                  ELSE /\ result' = [result EXCEPT !.output_folder = MainFolder,
                                                   !.saved_files =
                                                       IF SaveOk(w) THEN <<FullTextFile>> ELSE @]
                       /\ pc' = "done"
               /\ UNCHANGED <<si, saved, outcomes>>
    /\ UNCHANGED <<doc, entry, preferred, opts, idx, attempts, ret, segs>>

\* one iteration of the loop of save_chapter_files: the chapter's folder is
\* made (not for the introduction), then save_to_file writes the file; an
\* exception of either is logged and the loop goes on
SaveChapter ==
    /\ pc = "save_chapters"
    /\ si <= Len(segs)
    /\ LET seg  == segs[si]
           path == ChapterFile(seg.name, seg.index)
       IN  \E o \in WriteOutcomes :
              LET folder_raises == seg.index # -1 /\ o = "mkdir_fail"
                  escapes ==
                      \/ folder_raises /\ ~SaveChapterExcept
                      \/ ~folder_raises /\ ~SaveOk(o) /\ ~SaveToFileExcept
                             /\ ~SaveChapterExcept
              IN  /\ IF folder_raises
                     THEN UNCHANGED <<dirs, files, saved>>
                     ELSE /\ dirs' = SaveDirs(dirs, path, o)
                          /\ files' = SaveFiles(files, seg.content, path, o)
                          /\ saved' = IF SaveOk(o) THEN Append(saved, path) ELSE saved
                  /\ outcomes' = Append(outcomes, o)
                  /\ IF escapes
                     THEN pc' = UncaughtPc /\ result' = UncaughtResult /\ si' = si
                     ELSE pc' = pc /\ result' = result /\ si' = si + 1
    /\ UNCHANGED <<doc, entry, preferred, opts, idx, attempts, ret, segs>>

\* return saved_files; in process_pdf: result["saved_files"] = saved_files
SaveChaptersReturn ==
    /\ pc = "save_chapters"
    /\ si > Len(segs)
    /\ result' = IF entry = "process_pdf"
                 THEN [result EXCEPT !.saved_files = saved]
                 ELSE result
    /\ pc' = "done"
    /\ UNCHANGED <<doc, entry, preferred, opts, idx, attempts, ret, segs, si, saved,
                   outcomes, dirs, files>>

\* split_chapters = False: one file in the output directory
SaveSingle ==
    /\ pc = "save_single"
    /\ \E w \in WriteOutcomes :
          /\ dirs' = SaveDirs(dirs, ExtractedFile, w)
          /\ files' = SaveFiles(files, result.text, ExtractedFile, w)
          /\ outcomes' = <<w>>
          /\ IF ~SaveOk(w) /\ ~SaveToFileExcept
             THEN result' = UncaughtResult /\ pc' = UncaughtPc
             ELSE /\ result' = [result EXCEPT !.saved_files =
                                                  IF SaveOk(w) THEN <<ExtractedFile>> ELSE @]
                  /\ pc' = "done"
    /\ UNCHANGED <<doc, entry, preferred, opts, idx, attempts, ret, segs, si, saved>>

----------------------------------------------------------------------------
\* Spec: one call of extract_text or of process_pdf

Documents ==
    { d \in [exists : BOOLEAN, pdf_ext : BOOLEAN, decodable : BOOLEAN] :
        d.decodable => d.exists }

Options == [clean_text : BOOLEAN, save_to_output : BOOLEAN, split_chapters : BOOLEAN]

DefaultOptions == [clean_text |-> TRUE, save_to_output |-> FALSE, split_chapters |-> TRUE]

Init ==
    /\ doc \in Documents
    /\ entry \in {"extract_text", "process_pdf"}
    /\ IF entry = "extract_text"
       THEN /\ preferred \in MethodNames \cup {"auto", "other"}
            /\ opts = DefaultOptions
            /\ pc = "validate"
       ELSE /\ preferred = "auto"
            /\ opts \in Options
            /\ pc = "start"
    /\ idx = 0
    /\ attempts = <<>>
    /\ ret = None
    /\ result = None
    /\ segs = <<>>
    /\ si = 0
    /\ saved = <<>>
    /\ outcomes = <<>>
    /\ dirs = {}
    /\ files = <<>>
    /\ adapter = None
    /\ rep = FirstRun
    /\ ViewerInit
    /\ text = None
    /\ cleaned = None
    /\ recleaned = None
    /\ chapters = None
    /\ cchapters = None
    /\ tpc = "idle"

Next ==
    \/ ProcessStart /\ UNCHANGED <<tvars, adapter, rep, rvars>>
    \/ Validate /\ UNCHANGED <<tvars, adapter, rep, rvars>>
    \/ TryPreferred /\ UNCHANGED <<tvars, adapter, rep, rvars>>
    \/ NoPreferred /\ UNCHANGED <<tvars, adapter, rep, rvars>>
    \/ FallbackSkip /\ UNCHANGED <<tvars, adapter, rep, rvars>>
    \/ FallbackTry /\ UNCHANGED <<tvars, adapter, rep, rvars>>
    \/ AllFailed /\ UNCHANGED <<tvars, adapter, rep, rvars>>
    \/ ProcessFailed /\ UNCHANGED <<tvars, adapter, rep, rvars>>
    \/ ProcessText /\ UNCHANGED <<tvars, adapter, rep, rvars>>
    \/ ProcessFolders /\ UNCHANGED <<tvars, adapter, rvars>>
    \/ SaveChapter /\ UNCHANGED <<tvars, adapter, rep, rvars>>
    \/ SaveChaptersReturn /\ UNCHANGED <<tvars, adapter, rep, rvars>>
    \/ SaveSingle /\ UNCHANGED <<tvars, adapter, rep, rvars>>

Spec == Init /\ [][Next]_vars

----------------------------------------------------------------------------
\* SpecLayout: one call of save_chapter_files by a caller that made the
\* folders with create_chapter_folders

\* the characters chapter names are made of here: a letter, a blank, a
\* character the file name drops, a hyphen and a digit
LabelChars == {"A", " ", "!", "-", "1"}

Labels == UNION { [1..n -> LabelChars] : n \in 0..MaxLabelLen }

\* chapter_index: the introduction, and chapters whose folder number has one,
\* two and three digits
IndexChoices == {-1, 0, 8, 9, 99}

\* the chapters argument: one chapter, or two of the same name and index
LayoutChapters ==
    { <<[name |-> l, index |-> k, content |-> <<"a">>]>> :
          l \in Labels, k \in IndexChoices }
    \cup
    { <<[name |-> l, index |-> k, content |-> <<"a">>],
        [name |-> l, index |-> k, content |-> <<"b">>]>> :
          l \in Labels, k \in IndexChoices }

LayoutInit ==
    /\ entry = "save_chapter_files"
    /\ segs \in LayoutChapters
    /\ pc = "save_chapters"
    /\ si = 1
    /\ saved = <<>>
    /\ outcomes = <<>>
    /\ dirs = MkdirParents({}, IntroFolder)
    /\ files = <<>>
    /\ doc = [exists |-> TRUE, pdf_ext |-> TRUE, decodable |-> TRUE]
    /\ preferred = "auto"
    /\ opts = DefaultOptions
    /\ idx = 0
    /\ attempts = <<>>
    /\ ret = None
    /\ result = None
    /\ adapter = None
    /\ rep = FirstRun
    /\ ViewerInit
    /\ text = None
    /\ cleaned = None
    /\ recleaned = None
    /\ chapters = None
    /\ cchapters = None
    /\ tpc = "idle"

LayoutNext ==
    \/ SaveChapter /\ UNCHANGED <<tvars, adapter, rep, rvars>>
    \/ SaveChaptersReturn /\ UNCHANGED <<tvars, adapter, rep, rvars>>

SpecLayout == LayoutInit /\ [][LayoutNext]_vars

----------------------------------------------------------------------------
\* SpecAdapter: one call of one backend adapter

AdapterCalls ==
    UNION { [method : {m}, beh : Behaviours(m), text : {None},
             handle_open : {FALSE}, called : {FALSE}] : m \in MethodNames }

AdapterInit ==
    /\ adapter \in AdapterCalls
    /\ rep = FirstRun
    /\ ViewerInit
    /\ entry = "adapter"
    /\ pc = "idle"
    /\ segs = <<>>
    /\ si = 0
    /\ saved = <<>>
    /\ outcomes = <<>>
    /\ dirs = {}
    /\ files = <<>>
    /\ doc = [exists |-> TRUE, pdf_ext |-> TRUE, decodable |-> TRUE]
    /\ preferred = "auto"
    /\ opts = DefaultOptions
    /\ idx = 0
    /\ attempts = <<>>
    /\ ret = None
    /\ result = None
    /\ text = None
    /\ cleaned = None
    /\ recleaned = None
    /\ chapters = None
    /\ cchapters = None
    /\ tpc = "idle"

\* the adapter runs to its return
CallAdapter ==
    /\ ~adapter.called
    /\ adapter' = [adapter EXCEPT
                      !.text = CallMethod(adapter.method, adapter.beh),
                      !.handle_open = HandleLeftOpen(adapter.method, adapter.beh),
                      !.called = TRUE]

AdapterNext == CallAdapter /\ UNCHANGED <<tvars, pvars, rep, rvars>>

SpecAdapter == AdapterInit /\ [][AdapterNext]_vars

----------------------------------------------------------------------------
\* Properties of extract_text and process_pdf (checked under Spec)

\* the document passes every test of validate_pdf_file
ValidDocument == doc.exists /\ doc.pdf_ext /\ doc.decodable

\* extract_text has returned
Returned == pc \in {"returned", "folders", "save_chapters", "save_single", "done"}

\* the backend call gave text that is not only whitespace
NonEmptyText(a) == a.open = "ok" /\ Strip(a.raw) # <<>>

\* the order of the backend calls for a preferred method
ExpectedOrder(p) ==
    IF p = "pdfplumber" THEN <<"pdfplumber", "pymupdf", "pypdf2">>
    ELSE IF p = "pypdf2" THEN <<"pypdf2", "pymupdf", "pdfplumber">>
    ELSE <<"pymupdf", "pdfplumber", "pypdf2">>

\* C1: at every point of a call of extract_text the backends attempted so
\* far are, in order, the preferred backend (when it names one) and then the
\* others in the order pymupdf, pdfplumber, pypdf2; so none is tried twice.
C1_AttemptOrder ==
    /\ Len(attempts) <= 3
    /\ \A i \in 1..Len(attempts) : attempts[i].method = ExpectedOrder(preferred)[i]

C1_Witness ==
    /\ pc = "returned"
    /\ preferred = "pypdf2"
    /\ Len(attempts) = 3

\* C2: no backend is attempted after one that gave non-empty text, and
\* extract_text returns the (stripped) text of that backend, whatever the
\* earlier ones did; it returns None when no backend gave non-empty text.
C2_FirstSuccess ==
    /\ \A i \in 1..(Len(attempts) - 1) : ~NonEmptyText(attempts[i])
    /\ Returned =>
          IF attempts # <<>> /\ NonEmptyText(attempts[Len(attempts)])
          THEN ret = Strip(attempts[Len(attempts)].raw)
          ELSE ret = None

C2_Witness ==
    /\ pc = "returned"
    /\ Len(attempts) = 3
    /\ attempts[1].open = "raise"
    /\ attempts[2].open = "ok" /\ attempts[2].raw # <<>> /\ Strip(attempts[2].raw) = <<>>
    /\ NonEmptyText(attempts[3])
    /\ ret # None

\* C3: when no backend gives non-empty text for a valid document,
\* extract_text returns None having attempted all three backends, and
\* process_pdf returns success = false, an error reason, text = None and no
\* saved files, and has written nothing.
C3_AllBackendsFailed ==
    (Returned /\ \A i \in 1..Len(attempts) : ~NonEmptyText(attempts[i])) =>
        /\ ret = None
        /\ ValidDocument =>
              { attempts[i].method : i \in 1..Len(attempts) }
                  = {"pymupdf", "pdfplumber", "pypdf2"}
        /\ (entry = "process_pdf" /\ pc = "done") =>
              /\ result.success = FALSE
              /\ result.error = ExtractionFailed
              /\ result.text = None
              /\ result.saved_files = <<>>
              /\ DOMAIN files = {}

C3_Witness ==
    /\ pc = "done"
    /\ entry = "process_pdf"
    /\ ValidDocument
    /\ opts.save_to_output
    /\ Len(attempts) = 3
    /\ \E i \in 1..3 : attempts[i].open = "ok" /\ attempts[i].raw # <<>>
    /\ result.success = FALSE

\* C4: for a path that is missing, does not end in .pdf or does not decode,
\* no backend is ever attempted and extract_text returns None; process_pdf
\* then reports the failure.
C4_InvalidDocument ==
    ~ValidDocument =>
        /\ attempts = <<>>
        /\ pc \notin {"preferred", "fallback"}
        /\ Returned => ret = None
        /\ (entry = "process_pdf" /\ pc = "done") =>
              result.success = FALSE /\ result.error # None

C4_Witness ==
    /\ pc = "returned"
    /\ doc.exists /\ doc.decodable /\ ~doc.pdf_ext
    /\ preferred = "pymupdf"

----------------------------------------------------------------------------
\* Properties of the text functions (checked under SpecText)

\* the contents of a list of segments
SegContents(cs) == [i \in 1..Len(cs) |-> cs[i].content]

\* a list of segments in ordinal order, segments of equal ordinal in the
\* order of the list
RECURSIVE InsertByOrdinal(_, _)
InsertByOrdinal(sorted, seg) ==
    IF sorted = <<>> THEN <<seg>>
    ELSE IF seg.index < Head(sorted).index THEN <<seg>> \o sorted
    ELSE <<Head(sorted)>> \o InsertByOrdinal(Tail(sorted), seg)

RECURSIVE OrdinalOrder(_)
OrdinalOrder(cs) ==
    IF cs = <<>> THEN <<>>
    ELSE InsertByOrdinal(OrdinalOrder(SubSeq(cs, 1, Len(cs) - 1)), cs[Len(cs)])

\* the segments that come from a marker line
ChapterSegments(cs) == SelectSeq(cs, LAMBDA seg : seg.name # Introduction)

\* the chapter numbers of the marker lines of a text, in document order
MarkerNums(t) ==
    LET starts == chapter_starts(Split(t))
    IN  [i \in 1..Len(starts) |-> starts[i].num]

StrictlyIncreasing(ns) == \A i \in 1..(Len(ns) - 1) : ns[i] < ns[i + 1]

IsPrefix(p, s) == Len(p) <= Len(s) /\ SubSeq(s, 1, Len(p)) = p

\* C5, as claimed: the segment contents, concatenated in ordinal order,
\* reproduce the normalized text.
C5_Original ==
    tpc = "cdetected" => Concat(SegContents(OrdinalOrder(cchapters))) = cleaned

\* C5, amended: the segment contents in the order returned, joined by single
\* newlines, reproduce a normalized text exactly, and any text up to
\* normalization.
C5_Partition ==
    /\ tpc = "cdetected" => Join(SegContents(cchapters)) = cleaned
    /\ tpc = "detected" =>
          clean_extracted_text(Join(SegContents(chapters))) = clean_extracted_text(text)

C5_Witness ==
    /\ tpc = "cdetected"
    /\ Len(cchapters) = 3
    /\ cchapters[1].name = Introduction
    /\ cleaned # text

\* C6: cleaning a cleaned text changes nothing.
C6_Idempotent == tpc = "recleaned" => recleaned = cleaned

C6_Witness ==
    /\ tpc = "recleaned"
    /\ cleaned # text
    /\ Len(Split(cleaned)) >= 2

\* C7, as claimed: the ordinals of the chapter segments are strictly
\* increasing in the order returned.
C7_Original ==
    tpc = "detected" =>
        StrictlyIncreasing([i \in 1..Len(ChapterSegments(chapters)) |->
                               ChapterSegments(chapters)[i].index])

\* C7, amended: the chapter segments are in marker order, and the ordinals of
\* two of them are in the order of their marker numbers; so the ordinals are
\* strictly increasing exactly when the marker numbers are.
C7_OrdinalsFollowMarkers ==
    tpc = "detected" =>
        LET cs   == ChapterSegments(chapters)
            nums == MarkerNums(text)
        IN  /\ Len(cs) = Len(nums)
            /\ \A i, j \in 1..Len(cs) :
                  (cs[i].index < cs[j].index) <=> (nums[i] < nums[j])
            /\ StrictlyIncreasing([i \in 1..Len(cs) |-> cs[i].index])
                  <=> StrictlyIncreasing(nums)

C7_Witness ==
    /\ tpc = "detected"
    /\ Len(MarkerNums(text)) = 2
    /\ MarkerNums(text)[1] < MarkerNums(text)[2]
    /\ chapters[1].name = Introduction

\* C8, as claimed: at most one segment has ordinal -1, and it is the first.
C8_Original ==
    tpc = "detected" =>
        /\ Cardinality({ i \in 1..Len(chapters) : chapters[i].index = -1 }) <= 1
        /\ \A i \in 1..Len(chapters) : chapters[i].index = -1 => i = 1

\* C9, as claimed: only the introduction has ordinal -1.
C9_Original ==
    tpc = "detected" =>
        \A i \in 1..Len(chapters) :
            chapters[i].index = -1 => chapters[i].name = Introduction

\* C10: with markers, the segments are an optional introduction and then one
\* segment per marker, in document order: named "Chapter n", with ordinal
\* n - 1, its content the stripped join of the lines from the marker line to
\* the line before the next marker (or the last line), which begins with the
\* stripped marker line.
C10_ChapterSegments ==
    (tpc = "detected" /\ MarkerNums(text) # <<>>) =>
        LET lines  == Split(text)
            starts == chapter_starts(lines)
            off    == Len(chapters) - Len(starts)
        IN  /\ off \in {0, 1}
            /\ off = 1 => chapters[1].name = Introduction
            /\ \A k \in 1..Len(starts) :
                  LET seg  == chapters[off + k]
                      last == IF k < Len(starts) THEN starts[k + 1].line - 1
                              ELSE Len(lines)
                  IN  /\ seg.name = <<"C", "h", "a", "p", "t", "e", "r", " ">>
                                        \o IntToStr(starts[k].num)
                      /\ seg.index = starts[k].num - 1
                      /\ seg.content = Strip(Join(SubSeq(lines, starts[k].line, last)))
                      /\ IsPrefix(Strip(lines[starts[k].line]), seg.content)
                      /\ IsPrefix(CHAPTER, seg.content)

C10_Witness ==
    /\ tpc = "detected"
    /\ Len(chapters) = 3
    /\ chapters[1].name = Introduction
    /\ chapters[2].index = 2
    /\ Len(Split(chapters[3].content)) = 1

\* C11: with markers, there is a segment named Introduction exactly when the
\* first marker is not on the first line and the lines before it are not all
\* blank; it is then the first segment, with ordinal -1 and the stripped join
\* of those lines as content.
C11_Introduction ==
    (tpc = "detected" /\ MarkerNums(text) # <<>>) =>
        LET lines  == Split(text)
            first  == chapter_starts(lines)[1].line
            before == Strip(Join(SubSeq(lines, 1, first - 1)))
        IN  /\ (\E i \in 1..Len(chapters) : chapters[i].name = Introduction)
                  <=> (first > 1 /\ before # <<>>)
            /\ \A i \in 1..Len(chapters) :
                  chapters[i].name = Introduction =>
                      /\ i = 1
                      /\ chapters[i].index = -1
                      /\ chapters[i].content = before
            /\ first = 1 => chapters[1].name # Introduction

C11_Witness ==
    /\ tpc = "detected"
    /\ Len(MarkerNums(text)) = 1
    /\ Len(Split(text)) = 3
    /\ Strip(Split(text)[1]) = <<>>
    /\ chapters[1].name = Introduction
    /\ chapters[1].content = <<"b">>

\* C12: without a marker line the result is the single segment
\* ("Introduction", -1, stripped text), or nothing when the text is empty or
\* all whitespace.
C12_NoMarkers ==
    (tpc = "detected" /\ MarkerNums(text) = <<>>) =>
        IF Strip(text) # <<>>
        THEN chapters = <<[name |-> Introduction, index |-> -1, content |-> Strip(text)]>>
        ELSE chapters = <<>>

C12_Witness ==
    /\ tpc = "detected"
    /\ MarkerNums(text) = <<>>
    /\ Len(chapters) = 1
    /\ chapters[1].content # text
    /\ Len(Split(chapters[1].content)) >= 2

----------------------------------------------------------------------------
\* Properties of the saving of process_pdf (checked under Spec)

\* process_pdf has returned from a call that saved by chapter
SavedByChapter ==
    /\ pc = "done"
    /\ entry = "process_pdf"
    /\ result.success
    /\ opts.save_to_output /\ opts.split_chapters
    /\ result.error = None

AllWritten ==
    /\ Len(outcomes) = Len(segs)
    /\ \A i \in 1..Len(outcomes) : outcomes[i] = "ok"

\* the files of the first k chapters whose write succeeded, in order
RECURSIVE WrittenFiles(_)
WrittenFiles(k) ==
    IF k = 0 THEN <<>>
    ELSE WrittenFiles(k - 1)
         \o (IF outcomes[k] = "ok" THEN <<ChapterFile(segs[k].name, segs[k].index)>>
             ELSE <<>>)

\* C13, as claimed: a text without marker lines, saved by chapter with every
\* write succeeding, is in intro/full_text.txt.
C13_Original ==
    (SavedByChapter /\ AllWritten /\ MarkerNums(result.text) = <<>>) =>
        /\ FullTextFile \in DOMAIN files
        /\ files[FullTextFile] = result.text

\* C15: the loop of save_chapter_files visits every chapter whatever the
\* earlier ones did, and the list it returns holds the files of exactly the
\* chapters whose write succeeded, in chapter order.
C15_BatchContinues ==
    /\ pc = "save_chapters" =>
          /\ Len(outcomes) = si - 1
          /\ saved = WrittenFiles(Len(outcomes))
    /\ (pc = "done" /\ entry = "process_pdf" /\ result.output_folder # NoPath
           /\ segs # <<>>) =>
          /\ Len(outcomes) = Len(segs)
          /\ result.saved_files = WrittenFiles(Len(segs))

C15_Witness ==
    /\ pc = "done"
    /\ entry = "process_pdf"
    /\ Len(segs) = 3
    /\ outcomes = <<"write_fail", "mkdir_fail", "ok">>
    /\ Len(result.saved_files) = 1

\* C16, as claimed: with one failed write among three chapters the record
\* has the two written paths, reports the failure, and success is not false.
C16_Original ==
    (pc = "done" /\ entry = "process_pdf" /\ Len(segs) = 3 /\ Len(outcomes) = 3
        /\ Cardinality({ i \in 1..3 : outcomes[i] # "ok" }) = 1) =>
        /\ Len(result.saved_files) = 2
        /\ result.success
        /\ result.error # None

\* C18: no exception leaves extract_text, save_chapter_files or process_pdf,
\* wherever a backend, a mkdir or a write raises: the call goes on to its
\* return, and process_pdf returns its result record.
C18_NoEscape ==
    /\ pc \in {"start", "validate", "preferred", "fallback", "returned", "folders",
               "save_chapters", "save_single", "done"}
    /\ \A i \in 1..Len(attempts) : attempts[i].text # Raised
    /\ (pc = "done" /\ entry = "process_pdf") =>
          /\ result.success \in BOOLEAN
          /\ result.success => result.text # None

C18_Witness ==
    /\ pc = "done"
    /\ entry = "process_pdf"
    /\ result.error = FolderError
    /\ attempts[1].open = "raise"
    /\ attempts[2].open = "pages_raise"
    /\ dirs # {}

\* C19, as claimed: when every write succeeded, the file of every chapter
\* holds that chapter's content and there are as many files as chapters.
C19_Original ==
    (SavedByChapter /\ AllWritten) =>
        /\ \A i \in 1..Len(segs) :
              LET path == ChapterFile(segs[i].name, segs[i].index)
              IN  path \in DOMAIN files /\ files[path] = segs[i].content
        /\ Cardinality(DOMAIN files) = Len(segs)

----------------------------------------------------------------------------
\* Properties of the file layout (checked under SpecLayout)

\* the file name the claim describes: lower case, characters other than word
\* characters, whitespace and hyphen removed, each whitespace run one
\* underscore
ClaimedSlug(L) == SpacesToUnderscore(RemoveSpecial(Lower(L)))

\* the whitespace-separated words of s
RECURSIVE Words(_)
Words(s) ==
    IF s = <<>> THEN <<>>
    ELSE IF Head(s) \in Whitespace THEN Words(Tail(s))
    ELSE LET stops == { i \in 1..Len(s) : s[i] \in Whitespace }
             n == IF stops = {} THEN Len(s)
                  ELSE (CHOOSE i \in stops : \A j \in stops : i <= j) - 1
         IN  <<SubSeq(s, 1, n)>> \o Words(SubSeq(s, n + 1, Len(s)))

RECURSIVE JoinUnderscore(_)
JoinUnderscore(ws) ==
    IF ws = <<>> THEN <<>>
    ELSE IF Len(ws) = 1 THEN ws[1]
    ELSE ws[1] \o <<"_">> \o JoinUnderscore(Tail(ws))

\* the file name with the blanks at either end dropped: the words that are
\* left of the lower-cased name, joined by underscores
StrippedSlug(L) ==
    JoinUnderscore(Words(SelectSeq(Lower(L),
                                   LAMBDA c : c \in WordChars \cup Whitespace \cup {"-"})))

\* the folder name of chapter k: the decimal digits of k + 1, two at least
IsFolderOf(f, k) ==
    /\ Len(f) >= 2
    /\ \A i \in 1..Len(f) : f[i] \in Digits
    /\ ParseInt(f) = k + 1
    /\ Len(f) > 2 => f[1] # "0"

\* path is where a chapter of this name and index goes, with the given slug
IsLayoutPath(path, L, k, slug) ==
    IF k = -1
    THEN path = <<OutputDir, PdfName, IntroDir,
                  <<"i", "n", "t", "r", "o", "d", "u", "c", "t", "i", "o", "n",
                    ".", "t", "x", "t">>>>
    ELSE /\ Len(path) = 4
         /\ SubSeq(path, 1, 2) = <<OutputDir, PdfName>>
         /\ IsFolderOf(path[3], k)
         /\ path[4] = slug \o <<".", "t", "x", "t">>

\* the positions of the chapters whose write succeeded
WrittenAt == SelectSeq([i \in 1..Len(outcomes) |-> i], LAMBDA i : outcomes[i] = "ok")

LayoutDone == pc = "done" /\ entry = "save_chapter_files"

\* C14, as claimed: the file name is made without dropping the blanks at
\* either end of the name.
C14_Original ==
    LayoutDone =>
        /\ Len(saved) = Len(WrittenAt)
        /\ \A j \in 1..Len(saved) :
              LET seg == segs[WrittenAt[j]]
              IN  IsLayoutPath(saved[j], seg.name, seg.index, ClaimedSlug(seg.name))

\* C14: save_chapter_files writes the introduction (index -1) to
\* <base>/<doc>/intro/introduction.txt and a chapter of index k >= 0 and name
\* L to <base>/<doc>/<k+1, two digits at least>/<slug>.txt, where the slug is
\* L in lower case without the characters other than word characters,
\* whitespace and hyphen, without the whitespace at either end of what is
\* left, and with one underscore for each whitespace run; the path depends on
\* index and name only, whatever the content and however often it is computed.
C14_LayoutPath ==
    LayoutDone =>
        /\ Len(saved) = Len(WrittenAt)
        /\ \A j \in 1..Len(saved) :
              LET seg == segs[WrittenAt[j]]
              IN  /\ IsLayoutPath(saved[j], seg.name, seg.index, StrippedSlug(seg.name))
                  /\ saved[j] \in DOMAIN files
                  /\ Parent(saved[j]) \in dirs
        /\ \A i, j \in 1..Len(saved) : saved[i] = saved[j]

C14_Witness ==
    /\ LayoutDone
    /\ Len(segs) = 2
    /\ segs[1].name = <<"A", " ", "!">>
    /\ segs[1].index = 8
    /\ outcomes = <<"ok", "ok">>
    /\ saved[1] = <<OutputDir, PdfName, <<"0", "9">>, <<"a", ".", "t", "x", "t">>>>
    /\ saved[2] = saved[1]
    /\ files[saved[1]] = <<"b">>

----------------------------------------------------------------------------
\* Properties of the backend adapters (checked under SpecAdapter)

\* the text of the pages that gave text, in order, stripped
KeptText(pages) == Strip(Concat(SelectSeq(pages, LAMBDA p : p # RAISE)))

PageRaised(pages) == \E i \in 1..Len(pages) : pages[i] = RAISE

C20_Original == adapter.called => ~adapter.handle_open

----------------------------------------------------------------------------
\* SpecRepeat: process_pdf is called, and then called again with the same
\* arguments, the backends and the filesystem behaving as in the first call

\* the pages of the documents processed twice: no page, one page, and two
\* pages that start the same chapter
RepeatPages ==
    { <<>> }
    \cup { <<p>> : p \in PageChoices }
    \cup { <<CHAPTER \o <<" ", "1", "\n">>, CHAPTER \o <<" ", "1", "\n">>>> }

RepeatBehaviours(method) ==
    { b \in Behaviours(method) : b.open = "ok" => b.pages \in RepeatPages }

RepeatInit ==
    /\ doc \in Documents
    /\ entry = "process_pdf"
    /\ preferred = "auto"
    /\ opts \in Options
    /\ pc = "start"
    /\ idx = 0
    /\ attempts = <<>>
    /\ ret = None
    /\ result = None
    /\ segs = <<>>
    /\ si = 0
    /\ saved = <<>>
    /\ outcomes = <<>>
    /\ dirs = {}
    /\ files = <<>>
    /\ adapter = None
    /\ rep = FirstRun
    /\ ViewerInit
    /\ text = None
    /\ cleaned = None
    /\ recleaned = None
    /\ chapters = None
    /\ cchapters = None
    /\ tpc = "idle"

\* in the second call every backend, create_chapter_folders and every
\* save_to_file call goes as it went in the first
Replay ==
    rep.run = 2 =>
        /\ IsPrefix(attempts', rep.first.attempts)
        /\ IsPrefix(outcomes', rep.first.outcomes)
        /\ rep'.folder \in {"none", rep.first.folder}

\* the caller calls process_pdf again: nothing of the first call is kept but
\* the filesystem
Rerun ==
    /\ pc = "done"
    /\ rep.run = 1
    /\ rep' = [run    |-> 2,
               folder |-> "none",
               first  |-> [result |-> result, dirs |-> dirs, files |-> files,
                           attempts |-> attempts, outcomes |-> outcomes,
                           folder |-> rep.folder]]
    /\ pc' = "start"
    /\ idx' = 0
    /\ attempts' = <<>>
    /\ ret' = None
    /\ result' = None
    /\ segs' = <<>>
    /\ si' = 0
    /\ saved' = <<>>
    /\ outcomes' = <<>>
    /\ UNCHANGED <<doc, entry, preferred, opts, dirs, files>>

RepeatNext ==
    \/ ProcessStart /\ UNCHANGED <<tvars, adapter, rep, rvars>> /\ Replay
    \/ Validate /\ UNCHANGED <<tvars, adapter, rep, rvars>> /\ Replay
    \/ NoPreferred /\ UNCHANGED <<tvars, adapter, rep, rvars>> /\ Replay
    \/ FallbackTryOf(RepeatBehaviours(methods[idx]))
          /\ UNCHANGED <<tvars, adapter, rep, rvars>> /\ Replay
    \/ AllFailed /\ UNCHANGED <<tvars, adapter, rep, rvars>> /\ Replay
    \/ ProcessFailed /\ UNCHANGED <<tvars, adapter, rep, rvars>> /\ Replay
    \/ ProcessText /\ UNCHANGED <<tvars, adapter, rep, rvars>> /\ Replay
    \/ ProcessFolders /\ UNCHANGED <<tvars, adapter, rvars>> /\ Replay
    \/ SaveChapter /\ UNCHANGED <<tvars, adapter, rep, rvars>> /\ Replay
    \/ SaveChaptersReturn /\ UNCHANGED <<tvars, adapter, rep, rvars>> /\ Replay
    \/ SaveSingle /\ UNCHANGED <<tvars, adapter, rep, rvars>> /\ Replay
    \/ Rerun /\ UNCHANGED <<tvars, adapter, rvars>>

SpecRepeat == RepeatInit /\ [][RepeatNext]_vars

----------------------------------------------------------------------------
\* Properties of a second call of process_pdf (checked under SpecRepeat)

SecondDone == rep.run = 2 /\ pc = "done"

\* C21: a second call of process_pdf with the same arguments, the backends
\* and the filesystem behaving the same, fails nowhere the first did not,
\* returns the same record and leaves the same directories and the same files
\* with the same contents.
C21_Repeatable ==
    /\ pc # "raised"
    /\ SecondDone =>
          /\ result = rep.first.result
          /\ dirs = rep.first.dirs
          /\ DOMAIN files = DOMAIN rep.first.files
          /\ \A f \in DOMAIN files : files[f] = rep.first.files[f]

C21_Witness ==
    /\ SecondDone
    /\ result.success
    /\ outcomes = <<"ok", "ok">>
    /\ Len(result.saved_files) = 2
    /\ Cardinality(DOMAIN files) = 1
    /\ IntroFolder \in rep.first.dirs

----------------------------------------------------------------------------
\* Properties of the text functions, continued (checked under SpecText)

\* the lines of t, each stripped
StrippedLines(t) == [i \in 1..Len(Split(t)) |-> Strip(Split(t)[i])]

\* the stripped lines that are not empty, in order, joined by single newlines
NonEmptyLinesJoined(t) == Join(SelectSeq(StrippedLines(t), LAMBDA l : l # <<>>))

\* s has n or more newlines in a row
NewlineRun(s, n) ==
    \E i \in 1..(Len(s) - n + 1) : \A j \in i..(i + n - 1) : s[j] = "\n"

\* C22: clean_extracted_text gives the lines of its input, stripped, without
\* the empty ones, in order and joined by single newlines; the result has no
\* run of three newlines and is empty for an empty or blank input.
C22_CleanedLines ==
    tpc = "cleaned" =>
        /\ cleaned = NonEmptyLinesJoined(text)
        /\ ~NewlineRun(cleaned, 3)
        /\ (\A i \in 1..Len(text) : text[i] \in Whitespace) => cleaned = <<>>

C22_Witness ==
    /\ tpc = "cleaned"
    /\ text = <<"\n", " ", "b", "\t", "\n", " ">>
    /\ cleaned = <<"b">>

\* l is CHAPTER, one or more of the separators, and one or more digits, once
\* stripped
IsMarkerLine(l, separators) ==
    LET s == Strip(l)
        n == Len(CHAPTER)
    IN  /\ Len(s) >= n + 2
        /\ \A i \in 1..n : s[i] = CHAPTER[i]
        /\ \E k \in 1..(Len(s) - n - 1) :
              /\ \A i \in (n + 1)..(n + k) : s[i] \in separators
              /\ \A i \in (n + k + 1)..Len(s) : s[i] \in Digits

\* the number of a marker line: its digits are what follows the last
\* character that is not one
MarkerNumber(l) ==
    LET s == Strip(l)
        last == CHOOSE i \in 1..Len(s) :
                    s[i] \notin Digits /\ \A j \in (i + 1)..Len(s) : s[j] \in Digits
    IN  ParseInt(SubSeq(s, last + 1, Len(s)))

\* the names of the chapters that start at the marker lines of t
MarkerNames(t, separators) ==
    LET ms == SelectSeq(Split(t), LAMBDA l : IsMarkerLine(l, separators))
    IN  [i \in 1..Len(ms) |-> ChapterName(MarkerNumber(ms[i]))]

SegNames(cs) == [i \in 1..Len(cs) |-> cs[i].name]

----------------------------------------------------------------------------
\* Properties of the result record of process_pdf (checked under Spec)

ProcessDone == pc = "done" /\ entry = "process_pdf"

\* C24, as claimed: in the record process_pdf returns, success is true
\* exactly when error is None.
C24_Original == ProcessDone => (result.success <=> result.error = None)

\* C25: without save_to_output, process_pdf makes no directory and writes no
\* file, and its record has no saved file, no chapter and no output folder,
\* however the extraction went.
C25_NothingSaved ==
    (entry = "process_pdf" /\ ~opts.save_to_output) =>
        /\ dirs = {}
        /\ DOMAIN files = {}
        /\ pc \notin {"folders", "save_chapters", "save_single"}
        /\ ProcessDone =>
              /\ result.saved_files = <<>>
              /\ result.chapters = <<>>
              /\ result.output_folder = NoPath

C25_Witness ==
    /\ ProcessDone
    /\ ~opts.save_to_output
    /\ opts.split_chapters
    /\ result.success
    /\ MarkerNums(result.text) # <<>>
    /\ result.chapters = <<>>

----------------------------------------------------------------------------
\* SpecViewer: the events of MyopiaReader (display_reader.py)

ViewerMax(a, b) == IF a >= b THEN a ELSE b

ViewerMin(a, b) == IF a <= b THEN a ELSE b

\* a file of n numbered lines, each ended by a newline
FileOfLines(n) ==
    IF n = 0 THEN <<>> ELSE Join([i \in 1..n |-> IntToStr(i)]) \o <<"\n">>

\* files of no line, one line, and just below and at one and two pages of
\* ten lines, and the longest
FileChoices == { FileOfLines(n) : n \in {0, 1, 9, 10, 19, 20, MaxFileLines} }

\* a file whose open or read raises
Unreadable == <<"Unreadable">>

\* the heights of the text widget once the window is shown
HeightChoices == {300, 400, 800}

\* the values the font scale is dragged to
ScaleValues == {12, 56}

\* what the user types into the page entry
EntryChoices ==
    { <<>>, <<"a">>, <<"0">>, <<"1">>, <<"2">>, <<" ", "3", " ">>, <<"4">>,
      <<"-", "1">>, <<"2", ".", "0">> }

\* int(s) does not raise ValueError: optional whitespace around an optional
\* sign and one or more digits
IntLiteral(s) ==
    LET t == Strip(s)
        body == IF t # <<>> /\ t[1] \in {"+", "-"} THEN Tail(t) ELSE t
    IN  body # <<>> /\ \A i \in 1..Len(body) : body[i] \in Digits

\* int(s)
IntValue(s) ==
    LET t == Strip(s)
    IN  IF t[1] = "-" THEN 0 - ParseInt(Tail(t))
        ELSE IF t[1] = "+" THEN ParseInt(Tail(t))
        ELSE ParseInt(t)

\* calculate_pagination: self.lines_per_page
LinesPerPage(lpp, height, fs) ==
    IF height > 1
    THEN ViewerMax(10, ViewerMax(1, (height - 40) \div (fs + 8)) - 2)
    ELSE lpp

\* calculate_pagination: self.total_pages
TotalPagesFloor(n, lpp) == ViewerMax(1, n \div lpp)

TotalPages(n, lpp) == ViewerMax(1, (n + lpp - 1) \div lpp)

\* display_current_page: page_lines
PageLines(lines, page, lpp) ==
    SubSeq(lines, (page - 1) * lpp + 1, ViewerMin((page - 1) * lpp + lpp, Len(lines)))

\* if self.current_page > self.total_pages: self.current_page = self.total_pages
ClampMissing(page, total) == page

Clamp(page, total) == IF page > total THEN total ELSE page

\* display_current_page, for the page and pagination just set
Display ==
    /\ text_widget' = Join(PageLines(text_lines', current_page', lines_per_page'))
    /\ page_var' = IntToStr(current_page')

\* load_text_file(file_path)
Load(f) ==
    IF f = Unreadable
    THEN /\ messagebox' = "Error"
         /\ UNCHANGED <<current_text, text_lines, lines_per_page, total_pages,
                        current_page, text_widget, page_var>>
    ELSE /\ messagebox' = "none"
         /\ current_text' = f
         /\ text_lines' = Split(f)
         /\ lines_per_page' = LinesPerPage(lines_per_page, widget_height, font_size)
         /\ total_pages' = TotalPages(Len(text_lines'), lines_per_page')
         /\ current_page' = 1
         /\ Display

\* auto_load_text_file, at the end of __init__
AutoLoadTextFile ==
    /\ vpc = "init"
    /\ vpc' = "mainloop"
    /\ \/ /\ text_widget' = Welcome
          /\ messagebox' = "none"
          /\ UNCHANGED <<current_text, text_lines, lines_per_page, total_pages,
                         current_page, page_var>>
       \/ \E f \in FileChoices \cup {Unreadable} : Load(f)
    /\ UNCHANGED <<font_size, widget_height>>

\* open_file, with a file chosen in the dialog
LoadTextFile ==
    /\ vpc = "mainloop"
    /\ \E f \in FileChoices \cup {Unreadable} : Load(f)
    /\ UNCHANGED <<vpc, font_size, widget_height>>

\* the window is shown or resized
Resize ==
    /\ vpc = "mainloop"
    /\ \E h \in HeightChoices : widget_height' = h
    /\ messagebox' = "none"
    /\ UNCHANGED <<vpc, current_text, text_lines, font_size, lines_per_page,
                   current_page, total_pages, page_var, text_widget>>

\* the user edits the page entry
TypePage ==
    /\ vpc = "mainloop"
    /\ \E e \in EntryChoices : page_var' = e
    /\ messagebox' = "none"
    /\ UNCHANGED <<vpc, current_text, text_lines, font_size, lines_per_page,
                   current_page, total_pages, text_widget, widget_height>>

PrevPage ==
    /\ vpc = "mainloop"
    /\ UNCHANGED <<vpc, current_text, text_lines, font_size, lines_per_page,
                   total_pages, widget_height>>
    /\ messagebox' = "none"
    /\ IF current_page > 1
       THEN /\ current_page' = current_page - 1
            /\ IF text_lines # <<>> THEN Display ELSE UNCHANGED <<text_widget, page_var>>
       ELSE UNCHANGED <<current_page, text_widget, page_var>>

NextPage ==
    /\ vpc = "mainloop"
    /\ UNCHANGED <<vpc, current_text, text_lines, font_size, lines_per_page,
                   total_pages, widget_height>>
    /\ messagebox' = "none"
    /\ IF current_page < total_pages
       THEN /\ current_page' = current_page + 1
            /\ IF text_lines # <<>> THEN Display ELSE UNCHANGED <<text_widget, page_var>>
       ELSE UNCHANGED <<current_page, text_widget, page_var>>

\* 1 <= target_page <= self.total_pages, for an entry int() accepts
InRange(entry_text, total) ==
    IntLiteral(entry_text) /\ 1 <= IntValue(entry_text) /\ IntValue(entry_text) <= total

JumpToPageUnchecked ==
    /\ vpc = "mainloop"
    /\ UNCHANGED <<vpc, current_text, text_lines, font_size, lines_per_page,
                   total_pages, widget_height>>
    /\ IF IntLiteral(page_var) /\ 1 <= IntValue(page_var)
       THEN /\ current_page' = IntValue(page_var)
            /\ messagebox' = "none"
            /\ IF text_lines # <<>> THEN Display ELSE UNCHANGED <<text_widget, page_var>>
       ELSE /\ page_var' = IntToStr(current_page)
            /\ messagebox' = IF IntLiteral(page_var) THEN "Invalid Page"
                              ELSE "Invalid Input"
            /\ UNCHANGED <<current_page, text_widget>>

JumpToPage ==
    /\ vpc = "mainloop"
    /\ UNCHANGED <<vpc, current_text, text_lines, font_size, lines_per_page,
                   total_pages, widget_height>>
    /\ IF InRange(page_var, total_pages)
       THEN /\ current_page' = IntValue(page_var)
            /\ messagebox' = "none"
            /\ IF text_lines # <<>> THEN Display ELSE UNCHANGED <<text_widget, page_var>>
       ELSE /\ page_var' = IntToStr(current_page)
            /\ messagebox' = IF IntLiteral(page_var) THEN "Invalid Page"
                              ELSE "Invalid Input"
            /\ UNCHANGED <<current_page, text_widget>>

\* the font size is set: if self.text_lines, the pagination is calculated
\* again, the page is brought back in range and shown
SetFontSize(fs) ==
    /\ font_size' = fs
    /\ messagebox' = "none"
    /\ IF text_lines # <<>>
       THEN /\ lines_per_page' = LinesPerPage(lines_per_page, widget_height, fs)
            /\ total_pages' = TotalPages(Len(text_lines), lines_per_page')
            /\ current_page' = Clamp(current_page, total_pages')
            /\ UNCHANGED text_lines
            /\ Display
       ELSE UNCHANGED <<text_lines, lines_per_page, total_pages, current_page,
                        text_widget, page_var>>
    /\ UNCHANGED <<vpc, current_text, widget_height>>

UpdateFontSize ==
    /\ vpc = "mainloop"
    /\ \E value \in ScaleValues : SetFontSize(value)

IncreaseFontSize ==
    /\ vpc = "mainloop"
    /\ font_size < 56
    /\ SetFontSize(font_size + 2)

DecreaseFontSize ==
    /\ vpc = "mainloop"
    /\ font_size > 12
    /\ SetFontSize(font_size - 2)

\* the other specifications' variables, which the viewer never touches
ViewerOthers ==
    /\ text = None
    /\ cleaned = None
    /\ recleaned = None
    /\ chapters = None
    /\ cchapters = None
    /\ tpc = "idle"
    /\ doc = [exists |-> FALSE, pdf_ext |-> FALSE, decodable |-> FALSE]
    /\ entry = "viewer"
    /\ preferred = "auto"
    /\ opts = DefaultOptions
    /\ pc = "idle"
    /\ idx = 0
    /\ attempts = <<>>
    /\ ret = None
    /\ result = None
    /\ segs = <<>>
    /\ si = 0
    /\ saved = <<>>
    /\ outcomes = <<>>
    /\ dirs = {}
    /\ files = <<>>
    /\ adapter = None
    /\ rep = FirstRun

ViewerStart == ViewerInit /\ ViewerOthers

ViewerNext ==
    \/ AutoLoadTextFile /\ UNCHANGED <<tvars, pvars, adapter, rep>>
    \/ LoadTextFile /\ UNCHANGED <<tvars, pvars, adapter, rep>>
    \/ Resize /\ UNCHANGED <<tvars, pvars, adapter, rep>>
    \/ TypePage /\ UNCHANGED <<tvars, pvars, adapter, rep>>
    \/ PrevPage /\ UNCHANGED <<tvars, pvars, adapter, rep>>
    \/ NextPage /\ UNCHANGED <<tvars, pvars, adapter, rep>>
    \/ JumpToPage /\ UNCHANGED <<tvars, pvars, adapter, rep>>
    \/ UpdateFontSize /\ UNCHANGED <<tvars, pvars, adapter, rep>>
    \/ IncreaseFontSize /\ UNCHANGED <<tvars, pvars, adapter, rep>>
    \/ DecreaseFontSize /\ UNCHANGED <<tvars, pvars, adapter, rep>>

SpecViewer == ViewerStart /\ [][ViewerNext]_vars

----------------------------------------------------------------------------
\* Properties of the viewer (checked under SpecViewer)

\* C26: whatever files are loaded, pages turned or jumped to and font sizes
\* set, 1 <= current_page <= total_pages and total_pages >= 1.
C26_PageInRange ==
    /\ total_pages >= 1
    /\ 1 <= current_page
    /\ current_page <= total_pages

C26_Witness ==
    /\ Len(text_lines) = MaxFileLines + 1
    /\ font_size = 12
    /\ widget_height = 800
    /\ lines_per_page > MaxFileLines
    /\ total_pages = 1
    /\ current_page = 1
    /\ text_widget = current_text

\* the lines of the pages 1..k, page after page
RECURSIVE PagesUpTo(_)
PagesUpTo(k) ==
    IF k = 0 THEN <<>>
    ELSE PagesUpTo(k - 1) \o PageLines(text_lines, k, lines_per_page)

\* C27: with a file loaded, lines_per_page >= 10, total_pages is the number
\* of lines divided by lines_per_page, rounded up, no page of 1..total_pages
\* is empty, the pages one after the other are the lines of the file, each
\* once, and the text shown is the current page.
C27_Pagination ==
    text_lines # <<>> =>
        /\ lines_per_page >= 10
        /\ total_pages * lines_per_page >= Len(text_lines)
        /\ (total_pages - 1) * lines_per_page < Len(text_lines)
        /\ \A p \in 1..total_pages : PageLines(text_lines, p, lines_per_page) # <<>>
        /\ PagesUpTo(total_pages) = text_lines
        /\ \A i, j \in 1..Len(text_lines) : text_lines[i] = text_lines[j] => i = j
        /\ text_widget = Join(PageLines(text_lines, current_page, lines_per_page))

C27_Witness ==
    /\ Len(text_lines) = MaxFileLines + 1
    /\ lines_per_page = 10
    /\ total_pages = 3
    /\ current_page = 3
    /\ text_widget = Join(SubSeq(text_lines, 21, Len(text_lines)))
    /\ text_widget # <<>>

\* a step in which jump_to_page, prev_page or next_page refuses to move
RejectedJump == JumpToPage /\ messagebox' \in {"Invalid Page", "Invalid Input"}

RejectedPrev == PrevPage /\ current_page = 1

RejectedNext == NextPage /\ current_page = total_pages

\* C28: a jump to an entry that is no number or a number outside
\* 1..total_pages, prev_page on page 1 and next_page on the last page leave
\* current_page, the loaded text and total_pages as they are, and after the
\* refused jump the page entry shows the current page.
C28_RejectedNavigation ==
    [][ /\ (RejectedJump \/ RejectedPrev \/ RejectedNext) =>
              /\ current_page' = current_page
              /\ current_text' = current_text
              /\ text_lines' = text_lines
              /\ total_pages' = total_pages
        /\ RejectedJump => page_var' = IntToStr(current_page')
        /\ (JumpToPage /\ ~(IntLiteral(page_var) /\ IntValue(page_var) \in 1..total_pages))
              => RejectedJump ]_vars

C28_Witness ==
    /\ messagebox = "Invalid Page"
    /\ total_pages = 3
    /\ current_page = 2
    /\ page_var = <<"2">>
    /\ text_widget # <<>>

====
